---- MODULE Spec2Model ----
(***************************************************************************)
(* Model of the interactive troubleshooting engine of troubleshoot.py:     *)
(* the node map and bug overlay rebuilt by load_tree, the hit counter      *)
(* table, the custom_id codec of render_node / TroubleshootButton, and     *)
(* the dispatch callbacks.                                                 *)
(*                                                                         *)
(* Strings that the code splits or joins on ':' (node ids, custom ids,     *)
(* hit keys) are sequences of ':'-free segments: "ts:crash:1" is           *)
(* <<"ts", "crash", "1">>.  Concatenating with ':' is \o, str.endswith     *)
(* and str.rsplit are computed on the segments.                            *)
(***************************************************************************)
EXTENDS Integers, Sequences, FiniteSets, TLC

\* ------------------------------------------------------------------ bounds
\* dispatches (start, button, select) run in one behaviour
MaxDispatch == 2
\* load_tree calls run in one behaviour
MaxLoads == 2

\* hits of one key in a table the statistics query starts from
MaxCount == 2
\* largest LIMIT the statistics query is run with
MaxLimit == 3

\* ------------------------------------------------------- program constants
SELECT_THRESHOLD == 5
\* len(f"ts:{nid}:solved") > 100
CUSTOM_ID_LIMIT == 100
\* opt["label"][:80] for buttons, opt["label"][:100] for select options
BUTTON_LABEL_MAX == 80
SELECT_LABEL_MAX == 100
\* rows = top_hits(25) in cmd_stats
STATS_LIMIT == 25

\* ----------------------------------------------------------------- strings
\* None / a missing key of a node dict (falsy, like the empty string)
None == << >>

\* len() of one ':'-free segment; "x90", "x91" and "x98" stand for segments
\* of 90, 91 and 98 characters, every other segment is spelled out
SegLen(s) ==
    CASE s = "x90" -> 90
      [] s = "x91" -> 91
      [] s = "x98" -> 98
      [] s \in {"a", "t", "1", "2", "3", "4"} -> 1
      [] s = "ts" -> 2
      [] s \in {"abc", "esc"} -> 3
      [] s \in {"root", "fix1", "None"} -> 4
      [] s \in {"crash", "start"} -> 5
      [] s \in {"solved", "ts_sel"} -> 6
      [] s = "missing" -> 7
      [] s = "nowindow" -> 8
      [] s = "doesnotexist" -> 12
      [] OTHER -> 2

RECURSIVE StrLen(_)
\* len() of a string given by its segments: the segments and the ':' between
StrLen(s) ==
    IF s = << >> THEN 0
    ELSE IF Len(s) = 1 THEN SegLen(s[1])
    ELSE SegLen(s[1]) + 1 + StrLen(Tail(s))

\* str(count) in f"ts:{target}:{count}"; count is at most SELECT_THRESHOLD - 1
IntToStr(n) ==
    CASE n = 1 -> "1"
      [] n = 2 -> "2"
      [] n = 3 -> "3"
      [] n = 4 -> "4"
      [] OTHER -> "0"

\* payload.endswith(":solved")
EndsWithSolved(s) == Len(s) >= 2 /\ s[Len(s)] = "solved"

\* node_id.rsplit(":", 1)[0]
RsplitBase(s) == IF Len(s) >= 2 THEN SubSeq(s, 1, Len(s) - 1) ELSE s

Min(a, b) == IF a <= b THEN a ELSE b

\* ------------------------------------------------- decoded config documents
\* A node dict of troubleshooting-tree.yaml.  options is the ordered option
\* list (label, next); next / did_not_help are None when the key is absent;
\* collect is the number of collect prompts.
Node(type, options, next, did_not_help, collect) ==
    [type |-> type, options |-> options, next |-> next,
     did_not_help |-> did_not_help, collect |-> collect]

Question(options) == Node("question", options, None, None, 0)
Info(next) == Node("info", << >>, next, None, 0)
Solution(did_not_help) == Node("solution", << >>, None, did_not_help, 0)
Escalate(collect) == Node("escalate", << >>, None, None, collect)

\* one entry of a node's options list; len is len(label)
Opt(text, len, next) == [label |-> [text |-> text, len |-> len], next |-> next]

root == <<"root">>
crash == <<"crash">>
nowindow == <<"nowindow">>
fix1 == <<"fix1">>
esc == <<"esc">>
id_t == <<"t">>
id_t_1 == <<"t", "1">>
id_a_solved == <<"a", "solved">>
start == <<"start">>
missing == <<"missing">>
x90 == <<"x90">>
x91 == <<"x91">>
x98 == <<"x98">>

\* the tree of the two-option scenario, with one node of every type
TreeBasic ==
    (root :> Question(<<Opt("Crash on launch", 15, crash),
                        Opt("No window appears", 17, nowindow)>>))
    @@ (crash :> Solution(esc))
    @@ (nowindow :> Info(fix1))
    @@ (fix1 :> Solution(None))
    @@ (esc :> Escalate(2))

\* one target repeated three times in a button question; its solved token
\* is exactly 100 characters long
TreeRepeat ==
    (root :> Question(<<Opt("A", 1, x90), Opt("B", 90, x90), Opt("C", 1, x90)>>))
    @@ (x90 :> Escalate(0))

\* a repeated target "t" next to a node whose own id is "t:1"
TreeRepeatClash ==
    (root :> Question(<<Opt("A", 1, id_t), Opt("B", 1, id_t), Opt("C", 1, id_t_1)>>))
    @@ (id_t :> Info(None))
    @@ (id_t_1 :> Solution(None))

\* a node whose id ends in ":solved", references back to "root", and a node
\* of an unknown type
TreeMixed ==
    (root :> Question(<<Opt("A", 1, id_a_solved), Opt("B", 1, fix1),
                        Opt("C", 1, root), Opt("D", 1, id_t)>>))
    @@ (id_a_solved :> Info(fix1))
    @@ (fix1 :> Solution(root))
    @@ (id_t :> Node("tip", << >>, None, None, 0))

\* every reference resolves, but no node is called "root"
TreeNoRoot ==
    (start :> Question(<<Opt("A", 1, fix1)>>))
    @@ (fix1 :> Solution(start))

\* an info node whose next names no node
TreeInfoDangling ==
    (root :> Info(missing))

\* an info node whose next names no node and is 98 characters long
TreeInfoLongNext ==
    (root :> Info(x98))

\* an option whose next names no node
TreeBadOption ==
    (root :> Question(<<Opt("A", 1, crash), Opt("B", 1, missing)>>))
    @@ (crash :> Solution(root))

\* a did_not_help that names no node
TreeBadDnh ==
    (root :> Solution(missing))

\* "ts:" + id + ":solved" is 101 characters
TreeLongId ==
    (root :> Question(<<Opt("A", 1, x91)>>))
    @@ (x91 :> Escalate(0))

\* more than SELECT_THRESHOLD options, one target repeated
TreeSelect ==
    (root :> Question(<<Opt("A", 1, crash), Opt("B", 120, nowindow),
                        Opt("C", 1, fix1), Opt("D", 1, id_a_solved),
                        Opt("E", 1, id_t_1), Opt("F", 1, crash)>>))
    @@ (crash :> Solution(None))
    @@ (nowindow :> Info(fix1))
    @@ (fix1 :> Solution(None))
    @@ (id_a_solved :> Info(None))
    @@ (id_t_1 :> Info(None))

NodeMaps ==
    {TreeBasic, TreeRepeat, TreeRepeatClash, TreeMixed, TreeNoRoot,
     TreeInfoDangling, TreeInfoLongNext, TreeBadOption, TreeBadDnh,
     TreeLongId, TreeSelect}

\* What open(YAML_PATH) / yaml.safe_load / data["nodes"] can give load_tree:
\* the file cannot be opened, the document has no "nodes" key, or a node map.
TreeFile(nodemap) == [readable |-> TRUE, has_nodes |-> TRUE, nodes |-> nodemap]

TreeFiles ==
    {[readable |-> FALSE, has_nodes |-> FALSE, nodes |-> << >>],
     [readable |-> TRUE, has_nodes |-> FALSE, nodes |-> << >>]}
    \cup {TreeFile(n) : n \in NodeMaps}

\* one entry of the bug map, in document order
Bug(bid, name, status, thread, affects) ==
    [bid |-> bid, name |-> name, status |-> status,
     discord_thread |-> thread, affects |-> affects]

\* What BUGS_PATH.exists() / yaml.safe_load give load_tree; bugs is the
\* "bugs" map as the ordered list of its items.
NoBugFile == [exists |-> FALSE, bugs |-> << >>]

\* one active bug on two nodes, one fixed bug
BugsOneActive ==
    [exists |-> TRUE,
     bugs |-> <<Bug("b1", "Black screen", "active", "T123", <<fix1, esc>>),
                Bug("b2", "Old crash", "fixed", "T456", <<crash>>)>>]

\* two bugs that are not fixed on the same node, then a fixed one
BugsTwoActive ==
    [exists |-> TRUE,
     bugs |-> <<Bug("b1", "Black screen", "active", "T123", <<fix1>>),
                Bug("b2", "Driver bug", "open", "T456", <<fix1, crash>>),
                Bug("b3", "Old crash", "fixed", "T789", <<crash>>)>>]

BugFiles == {NoBugFile, BugsOneActive, BugsTwoActive}

\* The documents on disk at one load_tree call: every tree file without a
\* bug file, and the trees with overlaid nodes with each bug file as well.
Configs ==
    {[tree |-> tf, bugfile |-> NoBugFile] : tf \in TreeFiles}
    \cup {[tree |-> TreeFile(n), bugfile |-> bf] :
             n \in {TreeBasic}, bf \in BugFiles}

\* ------------------------------------------------------------ hit counters
\* the node_hits table: a function from node_id (primary key) to hits
NoHits == [k \in {} |-> 0]

\* the statement written as INSERT OR REPLACE ... VALUES (?, 1): a key that
\* is already there starts again at 1
hit_replace(table, node_id) ==
    [k \in DOMAIN table \cup {node_id} |-> IF k = node_id THEN 1 ELSE table[k]]

\* an UPDATE without its WHERE: every row is incremented along with the
\* row of node_id
hit_all(table, node_id) ==
    [k \in DOMAIN table \cup {node_id} |->
        IF k \in DOMAIN table THEN table[k] + 1 ELSE 1]

\* INSERT ... VALUES (?, 1) ON CONFLICT(node_id) DO UPDATE SET hits = hits + 1
hit(table, node_id) ==
    IF node_id \in DOMAIN table
    THEN [table EXCEPT ![node_id] = @ + 1]
    ELSE table @@ (node_id :> 1)

\* the rows of node_hits in rowid order, as their keys: the upsert adds a row
\* at the end for a new key and updates the row of a known key in place
insert_order(order, node_id) ==
    IF \E i \in 1..Len(order) : order[i] = node_id
    THEN order
    ELSE Append(order, node_id)

\* the rows of the table in scan order
table_rows(table, order) ==
    [i \in 1..Len(order) |-> [node_id |-> order[i], hits |-> table[order[i]]]]

\* place of row i in ORDER BY hits DESC: the sorter keeps rows of equal hits
\* in the order the scan delivered them
sort_rank(rows, i) ==
    1 + Cardinality({j \in 1..Len(rows) :
                        \/ rows[j].hits > rows[i].hits
                        \/ (rows[j].hits = rows[i].hits /\ j < i)})

\* the query without its ORDER BY: the first rows of the scan
top_hits_unsorted(table, order, limit) ==
    SubSeq(table_rows(table, order), 1, Min(limit, Len(order)))

\* top_hits(limit): SELECT node_id, hits FROM node_hits ORDER BY hits DESC
\* LIMIT ?, for limit >= 0
top_hits(table, order, limit) ==
    LET rows == table_rows(table, order)
    IN  [p \in 1..Min(limit, Len(rows)) |->
            rows[CHOOSE i \in 1..Len(rows) : sort_rank(rows, i) = p]]

\* ----------------------------------------------------------- tree loading
\* _validate_tree: the ValueErrors it can raise on the node map n, by what
\* they report.  Only options[*].next and did_not_help are looked up; the
\* length test is on f"ts:{nid}:solved".  It raises the first one it meets
\* in dict order, which is one of these.
validate_errors(n) ==
    {"missing reference" :
        nid \in {x \in DOMAIN n :
                    \/ \E i \in 1..Len(n[x].options) :
                          LET ref == n[x].options[i].next
                          IN  ref # None /\ ref \notin DOMAIN n
                    \/ LET ref == n[x].did_not_help
                       IN  ref # None /\ ref \notin DOMAIN n}}
    \cup
    {"id too long" :
        nid \in {x \in DOMAIN n :
                    StrLen(<<"ts">> \o x \o <<"solved">>) > CUSTOM_ID_LIMIT}}

\* _validate_tree returns without raising
validate_tree(n) == validate_errors(n) = {}

RECURSIVE index_affects(_, _, _)
\* for nid in bug.get("affects", []): _bug_by_node[nid] = bug
index_affects(index, bug, i) ==
    IF i > Len(bug.affects) THEN index
    ELSE index_affects(
             IF bug.affects[i] \in DOMAIN index
             THEN [index EXCEPT ![bug.affects[i]] = bug]
             ELSE index @@ (bug.affects[i] :> bug),
             bug, i + 1)

RECURSIVE index_bugs_keep_fixed(_, _, _)
\* the loop without its status test: a fixed bug is indexed like any other
index_bugs_keep_fixed(index, bugseq, i) ==
    IF i > Len(bugseq) THEN index
    ELSE index_bugs_keep_fixed(index_affects(index, bugseq[i], 1), bugseq, i + 1)

RECURSIVE index_bugs(_, _, _)
\* for bid, bug in _bugs.items(): if bug.get("status") != "fixed": ...
index_bugs(index, bugseq, i) ==
    IF i > Len(bugseq) THEN index
    ELSE index_bugs(
             IF bugseq[i].status # "fixed"
             THEN index_affects(index, bugseq[i], 1)
             ELSE index,
             bugseq, i + 1)

\* --------------------------------------------------------------- rendering
Button(custom_id, text, len, row) ==
    [widget |-> "button", custom_id |-> custom_id,
     label |-> [text |-> text, len |-> len], row |-> row, options |-> << >>]

\* the row of a button added without row=
AutoRow == -1

\* TroubleshootSelect.__init__: one SelectOption per option, its value the
\* raw opt["next"], its label opt["label"][:100]
TroubleshootSelect(node_id, options) ==
    [widget |-> "select", custom_id |-> <<"ts_sel">> \o node_id,
     label |-> [text |-> "Select your issue...", len |-> 20], row |-> AutoRow,
     options |-> [i \in 1..Len(options) |->
                    [label |-> [text |-> options[i].label.text,
                                len |-> Min(options[i].label.len, SELECT_LABEL_MAX)],
                     value |-> options[i].next]]]

\* seen.get(target, 0) when option i is reached: the earlier options with
\* the same target
seen_count(options, i) ==
    Cardinality({j \in 1..(i - 1) : options[j].next = options[i].next})

\* the button loop without the seen dict: every option gets ts:<target>
option_buttons_plain(options) ==
    [i \in 1..Len(options) |->
        Button(<<"ts">> \o options[i].next, options[i].label.text,
               Min(options[i].label.len, BUTTON_LABEL_MAX), (i - 1) \div 5)]

\* the button loop of render_node: option i (from 1) gets ts:<target> or
\* ts:<target>:<count>, label[:80] and row (i - 1) // 5
option_buttons(options) ==
    [i \in 1..Len(options) |->
        LET target == options[i].next
            count == seen_count(options, i)
            cid == IF count = 0 THEN <<"ts">> \o target
                   ELSE <<"ts">> \o target \o <<IntToStr(count)>>
        IN  Button(cid, options[i].label.text,
                   Min(options[i].label.len, BUTTON_LABEL_MAX), (i - 1) \div 5)]

\* _embed_for: the title chosen by node["type"]
embed_title(ntype) ==
    CASE ntype = "question" -> "Troubleshooting"
      [] ntype = "solution" -> "Possible fix"
      [] ntype = "info" -> "Info"
      [] ntype = "escalate" -> "Further help needed"
      [] OTHER -> "Troubleshooting"

\* the solved button with the custom id of the node itself
SolvedButton_plain(node_id) ==
    Button(<<"ts">> \o node_id, "That solved it!", 15, AutoRow)

SolvedButton(node_id) ==
    Button(<<"ts">> \o node_id \o <<"solved">>, "That solved it!", 15, AutoRow)

StartOverButton == Button(<<"ts", "root">>, "Start over", 10, 4)

\* _error_embed(f"Unknown node `{node_id}`"), discord.ui.View()
error_payload(node_id) ==
    [kind |-> "error", node |-> node_id, title |-> "Error",
     body |-> "Unknown node", fields |-> << >>, items |-> << >>]

\* _render_solved
render_solved ==
    [kind |-> "solved", node |-> None, title |-> "Issue resolved",
     body |-> "Glad that's sorted!", fields |-> << >>, items |-> << >>]

\* render_node(node_id) against the node map n and the overlay index
render_node(n, index, node_id) ==
    IF node_id \notin DOMAIN n THEN error_payload(node_id)
    ELSE
    LET node == n[node_id]
        ntype == node.type
        has_bug == node_id \in DOMAIN index
        known == IF ntype = "solution" /\ has_bug
                 THEN <<[name |-> "Known issue",
                         link |-> index[node_id].discord_thread]>>
                 ELSE << >>
        \* _add_escalate_content
        body == IF ntype = "escalate"
                THEN (IF has_bug THEN "text + known issue" ELSE "text + more-help")
                ELSE "text"
        collect == IF ntype = "escalate" /\ node.collect > 0
                   THEN <<[name |-> "Include in your post", link |-> ""]>>
                   ELSE << >>
        items ==
            CASE ntype = "question" ->
                     IF Len(node.options) > SELECT_THRESHOLD
                     THEN <<TroubleshootSelect(node_id, node.options)>>
                     ELSE option_buttons(node.options)
              [] ntype = "solution" ->
                     <<SolvedButton(node_id)>>
                     \o (IF node.did_not_help # None
                         THEN <<Button(<<"ts">> \o node.did_not_help,
                                       "Still having issues", 19, AutoRow)>>
                         ELSE << >>)
              [] ntype = "info" ->
                     IF node.next # None
                     THEN <<Button(<<"ts">> \o node.next, "Continue", 8, AutoRow)>>
                     ELSE << >>
              [] ntype = "escalate" -> <<SolvedButton(node_id)>>
              [] OTHER -> << >>
    IN  [kind |-> "node", node |-> node_id, title |-> embed_title(ntype),
         body |-> body, fields |-> known \o collect,
         items |-> items \o <<StartOverButton>>]

\* ---------------------------------------------------------------- decoding
\* the template r"ts:(?P<payload>.+)" of TroubleshootButton
matches_template(custom_id) ==
    /\ Len(custom_id) >= 2
    /\ custom_id[1] = "ts"
    /\ Tail(custom_id) # <<"">>

\* TroubleshootButton.callback, lines 257-262: the payload itself when it is
\* a node id, else its rsplit base when that is one, else the payload
resolve_node_id(n, payload) ==
    IF payload \notin DOMAIN n /\ RsplitBase(payload) \in DOMAIN n
    THEN RsplitBase(payload)
    ELSE payload

\* the callback without the solved branch at its top: the payload is looked
\* up as a node id first, so a solved token of a known node hits that node
button_hit_key_lookup_first(n, payload) ==
    resolve_node_id(n, payload)

\* TroubleshootButton.callback: the key passed to _hit
button_hit_key(n, payload) ==
    IF EndsWithSolved(payload)
    THEN RsplitBase(payload) \o <<"solved">>
    ELSE resolve_node_id(n, payload)

\* TroubleshootButton.callback: the (embed, view) it sends
button_payload(n, index, payload) ==
    IF EndsWithSolved(payload) THEN render_solved
    ELSE render_node(n, index, resolve_node_id(n, payload))

\* custom ids that can arrive from a button of any message still on screen
\* (rendered from an earlier tree, or by hand): they need not name a node
Tokens ==
    {<<"ts", "crash", "abc">>, <<"ts", "doesnotexist">>, <<"ts", "fix1">>,
     <<"ts", "fix1", "solved">>, <<"ts", "a", "solved">>}

\* ------------------------------------------------------------------- state
VARIABLES
    nodes,          \* _nodes
    bugs,           \* _bugs, as the ordered list of its items
    bug_by_node,    \* _bug_by_node
    hits,           \* the node_hits table
    rowids,         \* the keys of node_hits in rowid order
    shown,          \* the interactive message on the user's screen
    last,           \* the most recent callback run: what it was called with,
                    \* the key it hit, what it rendered, whether its reply went out
    calls,          \* history: how often _hit returned for each key
    published,      \* history: the maps as the last returning load_tree left them
    load_result,    \* history: how the most recent load_tree call ended
    loads,          \* history: number of load_tree calls
    dispatched      \* history: number of callbacks run

vars == <<nodes, bugs, bug_by_node, hits, rowids, shown, last, calls,
          published, load_result, loads, dispatched>>

NoPayload ==
    [kind |-> "none", node |-> None, title |-> "", body |-> "",
     fields |-> << >>, items |-> << >>]

\* history counter of _hit calls, kept apart from the table itself
Tally(count, key) ==
    [k \in DOMAIN count \cup {key} |->
        (IF k \in DOMAIN count THEN count[k] ELSE 0) + (IF k = key THEN 1 ELSE 0)]

\* what a callback leaves in last
Ran(op, token, key, stored, payload, chain, sent, limit, rows) ==
    [op |-> op, token |-> token, key |-> key, stored |-> stored,
     payload |-> payload, chain |-> chain, sent |-> sent,
     limit |-> limit, rows |-> rows]

NoCallback ==
    Ran("none", << >>, << >>, FALSE, NoPayload, FALSE, FALSE, 0, << >>)

Init ==
    /\ nodes = << >>
    /\ bugs = << >>
    /\ bug_by_node = << >>
    /\ hits = NoHits
    /\ rowids = << >>
    /\ shown = [payload |-> NoPayload, chain |-> FALSE]
    /\ last = NoCallback
    /\ calls = NoHits
    /\ published = [nodes |-> << >>, bug_by_node |-> << >>, valid |-> FALSE]
    /\ load_result = "none"
    /\ loads = 0
    /\ dispatched = 0

\* ---------------------------------------------------------------- load_tree
\* load_tree with the tree document tf and the bug document bf.  The function
\* has no await: it runs to its return or its raise in one step.  A payload
\* rendered before the call no longer counts as rendered from the loaded tree.
load_tree(tf, bf) ==
    /\ loads < MaxLoads
    /\ loads' = loads + 1
    /\ shown' = [shown EXCEPT !.chain = FALSE]
    /\ UNCHANGED <<hits, rowids, calls, last, dispatched>>
    /\ IF ~tf.readable
       THEN \* open(YAML_PATH) raises before anything is touched
            /\ load_result' = "OSError"
            /\ UNCHANGED <<nodes, bugs, bug_by_node, published>>
       ELSE IF ~tf.has_nodes
       THEN \* _nodes.clear() has run when data["nodes"] raises KeyError
            /\ nodes' = << >>
            /\ load_result' = "KeyError"
            /\ UNCHANGED <<bugs, bug_by_node, published>>
       ELSE IF ~validate_tree(tf.nodes)
       THEN \* _nodes.clear(); _nodes.update(...); _validate_tree() raises
            /\ nodes' = tf.nodes
            /\ load_result' \in validate_errors(tf.nodes)
            /\ UNCHANGED <<bugs, bug_by_node, published>>
       ELSE /\ nodes' = tf.nodes
            /\ bugs' = (IF bf.exists THEN bf.bugs ELSE << >>)
            /\ bug_by_node' = index_bugs(<< >>, bugs', 1)
            /\ load_result' = "ok"
            /\ published' = [nodes |-> nodes', bug_by_node |-> bug_by_node',
                             valid |-> TRUE]

LoadTree == \E c \in Configs : load_tree(c.tree, c.bugfile)

\* --------------------------------------------------------------- callbacks
\* a callback that takes its increment back when the reply raises
run_callback_rollback(op, token, key, payload, chain) ==
    /\ dispatched < MaxDispatch
    /\ dispatched' = dispatched + 1
    /\ \E sent \in BOOLEAN :
          /\ hits' = IF sent THEN hit(hits, key) ELSE hits
          /\ rowids' = IF sent THEN insert_order(rowids, key) ELSE rowids
          /\ calls' = Tally(calls, key)
          /\ last' = Ran(op, token, key, TRUE, payload, chain, sent, 0, << >>)
          /\ shown' = IF sent THEN [payload |-> payload, chain |-> chain]
                      ELSE shown
    /\ UNCHANGED <<nodes, bugs, bug_by_node, published, load_result, loads>>

\* One callback whose _hit returns.  It has a single await, the reply at its
\* end: _hit(key), the render, then send_message / edit_message.  The reply
\* either goes out and replaces what is on screen, or raises
\* (InteractionResponded is swallowed, anything else propagates) and nothing
\* is shown or retried.
run_callback(op, token, key, payload, chain) ==
    /\ dispatched < MaxDispatch
    /\ dispatched' = dispatched + 1
    /\ hits' = hit(hits, key)
    /\ rowids' = insert_order(rowids, key)
    /\ calls' = Tally(calls, key)
    /\ \E sent \in BOOLEAN :
          /\ last' = Ran(op, token, key, TRUE, payload, chain, sent, 0, << >>)
          /\ shown' = IF sent THEN [payload |-> payload, chain |-> chain]
                      ELSE shown
    /\ UNCHANGED <<nodes, bugs, bug_by_node, published, load_result, loads>>

\* One callback whose _hit raises sqlite3.Error (the database is locked, the
\* disk is full).  No callback has a handler around _hit: the table is as it
\* was and the exception leaves the callback before the render and the reply.
hit_raises(op, token, key) ==
    /\ dispatched < MaxDispatch
    /\ dispatched' = dispatched + 1
    /\ last' = Ran(op, token, key, FALSE, NoPayload, FALSE, FALSE, 0, << >>)
    /\ UNCHANGED <<nodes, bugs, bug_by_node, hits, rowids, shown, calls,
                   published, load_result, loads>>

\* cmd_troubleshoot and HelpChannelStart.callback: _hit("root"),
\* render_node("root"), send_message
StartRequest ==
    run_callback("start", << >>, root, render_node(nodes, bug_by_node, root),
                 load_result = "ok")

\* TroubleshootButton.callback for the custom id token
button_callback(token, chain) ==
    /\ matches_template(token)
    /\ run_callback("button", token,
                    button_hit_key(nodes, Tail(token)),
                    button_payload(nodes, bug_by_node, Tail(token)),
                    chain)

\* the user presses a button of the message on screen
ClickButton ==
    \E i \in 1..Len(shown.payload.items) :
        LET item == shown.payload.items[i]
        IN  /\ item.widget = "button"
            /\ button_callback(item.custom_id,
                               shown.chain /\ item.label.text # "That solved it!")

\* TroubleshootSelect.callback: the user picks an entry of the select list
\* on screen; self.values[0] is that entry's value
SelectChoice ==
    \E i \in 1..Len(shown.payload.items) :
        LET item == shown.payload.items[i]
        IN  /\ item.widget = "select"
            /\ \E j \in 1..Len(item.options) :
                  LET value == item.options[j].value
                  IN  run_callback("select", value, value,
                                   render_node(nodes, bug_by_node, value),
                                   shown.chain)

\* a button press that arrives with any other custom id
DispatchToken == \E token \in Tokens : button_callback(token, FALSE)

\* cmd_troubleshoot / HelpChannelStart.callback with a failing _hit("root")
StartRequestDbError == hit_raises("start", << >>, root)

\* TroubleshootButton.callback with a failing _hit, for a button on screen
ClickButtonDbError ==
    \E i \in 1..Len(shown.payload.items) :
        LET item == shown.payload.items[i]
        IN  /\ item.widget = "button"
            /\ matches_template(item.custom_id)
            /\ hit_raises("button", item.custom_id,
                          button_hit_key(nodes, Tail(item.custom_id)))

\* TroubleshootSelect.callback with a failing _hit(self.values[0])
SelectChoiceDbError ==
    \E i \in 1..Len(shown.payload.items) :
        LET item == shown.payload.items[i]
        IN  /\ item.widget = "select"
            /\ \E j \in 1..Len(item.options) :
                  hit_raises("select", item.options[j].value,
                             item.options[j].value)

\* cmd_stats with rows = top_hits(limit): "No data yet." or one line per
\* row.  It reads the table and writes nothing.
run_stats(limit) ==
    /\ dispatched < MaxDispatch
    /\ dispatched' = dispatched + 1
    /\ LET rows == top_hits(hits, rowids, limit)
           payload == [kind |-> "stats", node |-> None, title |-> "",
                       body |-> IF rows = << >> THEN "No data yet." ELSE "lines",
                       fields |-> << >>, items |-> << >>]
       IN  \E sent \in BOOLEAN :
              last' = Ran("stats", << >>, << >>, FALSE, payload, FALSE, sent,
                          limit, rows)
    /\ UNCHANGED <<nodes, bugs, bug_by_node, hits, rowids, shown, calls,
                   published, load_result, loads>>

\* cmd_stats: rows = top_hits(25)
cmd_stats == run_stats(STATS_LIMIT)

Next ==
    \/ LoadTree
    \/ StartRequest
    \/ ClickButton
    \/ SelectChoice
    \/ DispatchToken
    \/ cmd_stats
    \/ StartRequestDbError
    \/ ClickButtonDbError
    \/ SelectChoiceDbError

\* load_tree at any time between the callbacks
Spec == Init /\ [][Next]_vars

\* load_tree is called once, before the first callback
LoadAtStartup == loads = 0 /\ dispatched = 0 /\ LoadTree

NextServe ==
    \/ LoadAtStartup
    \/ StartRequest
    \/ ClickButton
    \/ SelectChoice
    \/ DispatchToken
    \/ cmd_stats
    \/ StartRequestDbError
    \/ ClickButtonDbError
    \/ SelectChoiceDbError

\* the configuration is loaded at startup and served without a reload
SpecServe == Init /\ [][NextServe]_vars

\* a press of a button with custom id ts:fix1, from a message on screen
PressFix1 == button_callback(<<"ts", "fix1">>, FALSE)

NextReload ==
    \/ LoadTree
    \/ PressFix1

\* load_tree called again and again, between presses of one button that
\* renders a node under the overlay index
SpecReload == Init /\ [][NextReload]_vars

\* keys of the tables the statistics query is run on
StatKeys == {root, crash, fix1}

\* the ways StatKeys can have been inserted: each key at most once
InsertOrders ==
    {order \in UNION {[1..n -> StatKeys] : n \in 0..Cardinality(StatKeys)} :
        \A i, j \in 1..Len(order) : i # j => order[i] # order[j]}

\* a node_hits table left by earlier _hit calls
InitTop ==
    /\ rowids \in InsertOrders
    /\ hits \in [{rowids[i] : i \in 1..Len(rowids)} -> 1..MaxCount]
    /\ calls = hits
    /\ nodes = << >>
    /\ bugs = << >>
    /\ bug_by_node = << >>
    /\ shown = [payload |-> NoPayload, chain |-> FALSE]
    /\ last = NoCallback
    /\ published = [nodes |-> << >>, bug_by_node |-> << >>, valid |-> FALSE]
    /\ load_result = "none"
    /\ loads = 0
    /\ dispatched = 0

\* top_hits(limit) for the statistics reply
TopHitsCall == \E limit \in 0..MaxLimit : run_stats(limit)

NextTop ==
    \/ TopHitsCall
    \/ StartRequest

\* top_hits on the tables of InitTop, with _hit("root") calls in between
SpecTop == InitTop /\ [][NextTop]_vars

\* ================================================================== claims
\* a start, button or select callback ran in this step and its _hit returned
Dispatched == dispatched' = dispatched + 1 /\ last'.stored

\* the payload p is what the loaded tree renders for its node
IsRenderOf(p) ==
    /\ p.kind = "node"
    /\ p.node \in DOMAIN nodes
    /\ p = render_node(nodes, bug_by_node, p.node)

PairwiseDistinct(seq) ==
    \A i, j \in 1..Len(seq) : i # j => seq[i] # seq[j]

\* C1: after a load_tree that returned, a start request followed only by
\* presses of question buttons, select entries, Continue, Still having
\* issues and Start over of the payload on screen always renders a node.
C1Claim == last.chain => last.payload.kind = "node"

\* C2: a load_tree that raises for a missing reference while a validated
\* tree is published leaves the node map and the overlay index as they were.
C2Claim ==
    (load_result = "missing reference" /\ published.valid)
        => (nodes = published.nodes /\ bug_by_node = published.bug_by_node)

\* C3: for every node id n of the node map, the button callback for "ts:" + n
\* hits n and renders node n.
C3Claim ==
    [][(Dispatched /\ last'.op = "button" /\ Tail(last'.token) \in DOMAIN nodes)
          => /\ last'.key = Tail(last'.token)
             /\ last'.payload.kind = "node"
             /\ last'.payload.node = Tail(last'.token)]_vars

\* C4: in a button question of the loaded tree, the tokens of the options
\* that share a target are pairwise distinct, and the callback for each of
\* them hits and renders that target.
C4Claim ==
    [][\A i \in 1..Len(shown.payload.items) :
          LET p == shown.payload
          IN  (/\ Dispatched
               /\ last'.op = "button"
               /\ load_result = "ok"
               /\ IsRenderOf(p)
               /\ nodes[p.node].type = "question"
               /\ Len(nodes[p.node].options) <= SELECT_THRESHOLD
               /\ i <= Len(nodes[p.node].options)
               /\ \E j \in 1..Len(nodes[p.node].options) :
                     j # i /\ nodes[p.node].options[j].next = nodes[p.node].options[i].next
               /\ last'.token = p.items[i].custom_id)
              => /\ last'.key = nodes[p.node].options[i].next
                 /\ last'.payload.kind = "node"
                 /\ last'.payload.node = nodes[p.node].options[i].next
                 /\ \A j \in 1..Len(nodes[p.node].options) :
                       (j # i /\ nodes[p.node].options[j].next = nodes[p.node].options[i].next)
                           => p.items[j].custom_id # p.items[i].custom_id]_vars

\* C5: the button callback for a token "ts:" + n + ":solved" adds exactly 1
\* to the count of n + ":solved", changes no other count, and renders the
\* solved payload, which has no affordance, whatever the node map holds.
C5Solved ==
    [][(Dispatched /\ last'.op = "button" /\ EndsWithSolved(Tail(last'.token)))
          => /\ last'.key = Tail(last'.token)
             /\ hits' = Tally(hits, Tail(last'.token))
             /\ last'.payload.kind = "solved"
             /\ last'.payload.title = "Issue resolved"
             /\ last'.payload.items = << >>]_vars

\* a solved token was dispatched while the node map held a node of that very
\* id, and for the second time
C5Witness ==
    /\ last.op = "button"
    /\ last.token = <<"ts", "a", "solved">>
    /\ id_a_solved \in DOMAIN nodes
    /\ last.payload.kind = "solved"
    /\ hits[id_a_solved] = 2

\* C6: no step lowers a stored count or removes a key, and the count stored
\* for a key is the number of times _hit was called with it.
C6Counts ==
    [][/\ \A k \in DOMAIN hits : k \in DOMAIN hits' /\ hits'[k] >= hits[k]
       /\ hits' = calls']_vars

\* one key was hit twice, by two different callbacks
C6Witness ==
    /\ dispatched = 2
    /\ \E k \in DOMAIN hits : hits[k] = 2 /\ calls[k] = 2
    /\ last.op # "start"
    /\ last.key = root

\* C7: with a tree loaded, the button callback for a token that does not end
\* in ":solved" and names no node, with or without its last segment, renders
\* the error payload and leaves the table as it was.
C7Claim ==
    [][(/\ Dispatched
        /\ load_result = "ok"
        /\ last'.op = "button"
        /\ ~EndsWithSolved(Tail(last'.token))
        /\ Tail(last'.token) \notin DOMAIN nodes
        /\ RsplitBase(Tail(last'.token)) \notin DOMAIN nodes)
          => (last'.payload.kind = "error" /\ hits' = hits)]_vars

\* C8: after a load_tree that returned, a start request and the button
\* callback for "ts:root" render a node.
C8Claim ==
    [][(/\ Dispatched
        /\ load_result = "ok"
        /\ (last'.op = "start" \/ last'.token = <<"ts", "root">>))
          => last'.payload.kind = "node"]_vars

\* the custom ids of the buttons and selects of a payload
CustomIds(p) == [i \in 1..Len(p.items) |-> p.items[i].custom_id]

\* the values of the select entries of a payload
SelectValues(item) == [j \in 1..Len(item.options) |-> item.options[j].value]

\* C9: in every node payload rendered from a tree that load_tree accepted,
\* the custom ids are pairwise distinct and so are the values of the entries
\* of a select list.
C9Claim ==
    [][(Dispatched /\ load_result = "ok" /\ last'.payload.kind = "node")
          => /\ PairwiseDistinct(CustomIds(last'.payload))
             /\ \A i \in 1..Len(last'.payload.items) :
                   PairwiseDistinct(SelectValues(last'.payload.items[i]))]_vars

\* C10: the node map and the overlay index a callback can read are always
\* those left by the last load_tree that returned (the empty maps before
\* any did).
C10Claim ==
    /\ nodes = published.nodes
    /\ bug_by_node = published.bug_by_node
    /\ validate_tree(nodes)

\* a callback of the kind op ran in this step, whether or not its _hit returned
Ran_op(ops) == dispatched' = dispatched + 1 /\ last'.op \in ops

Callbacks == {"start", "button", "select"}

\* C11: a start, button or select callback whose write to node_hits raises
\* still renders its payload for the reply.
C11Claim ==
    [][(Ran_op(Callbacks) /\ ~last'.stored)
          => last'.payload.kind \in {"node", "solved", "error"}]_vars

\* the start callback ran on an empty table while "root" is a question of at
\* most SELECT_THRESHOLD options
StartOnQuestion ==
    /\ Dispatched
    /\ last'.op = "start"
    /\ hits = NoHits
    /\ root \in DOMAIN nodes
    /\ nodes[root].type = "question"
    /\ Len(nodes[root].options) <= SELECT_THRESHOLD

\* the table holds root = 1 and nothing else, and the payload is one button
\* per option, in option order, then Start over
StartRendersOptions ==
    /\ hits' = (root :> 1)
    /\ Len(last'.payload.items) = Len(nodes[root].options) + 1
    /\ \A i \in 1..Len(last'.payload.items) :
          last'.payload.items[i].widget = "button"

\* C12 as stated: every option button carries "ts:" + the option's target.
C12Claim ==
    [][StartOnQuestion
          => /\ StartRendersOptions
             /\ \A i \in 1..Len(nodes[root].options) :
                   last'.payload.items[i].custom_id
                       = <<"ts">> \o nodes[root].options[i].next]_vars

\* C12: a start request on an empty table, with "root" a question of n <= 5
\* options, leaves root = 1 as the only row and renders n option buttons in
\* option order; the button of an option whose target no earlier option has
\* carries "ts:" + target, the button of the k-th repeat of a target carries
\* "ts:" + target + ":" + k.
C12Start ==
    [][StartOnQuestion
          => /\ StartRendersOptions
             /\ \A i \in 1..Len(nodes[root].options) :
                   LET opts == nodes[root].options
                       k == Cardinality({j \in 1..(i - 1) : opts[j].next = opts[i].next})
                   IN  last'.payload.items[i].custom_id
                           = IF k = 0 THEN <<"ts">> \o opts[i].next
                             ELSE <<"ts">> \o opts[i].next \o <<IntToStr(k)>>]_vars

\* the two-option scenario: start on the empty table renders ts:crash and
\* ts:nowindow, and root has one hit
C12Witness ==
    /\ last.op = "start"
    /\ last.stored
    /\ dispatched = 1
    /\ hits = (root :> 1)
    /\ nodes = TreeBasic
    /\ CustomIds(last.payload)
           = <<<<"ts", "crash">>, <<"ts", "nowindow">>, <<"ts", "root">>>>

\* a callback rendered a solution node without did_not_help that the overlay
\* index maps to a bug
RendersOverlaidSolution ==
    /\ Dispatched
    /\ last'.payload.kind = "node"
    /\ last'.payload.node \in DOMAIN nodes
    /\ nodes[last'.payload.node].type = "solution"
    /\ nodes[last'.payload.node].did_not_help = None
    /\ last'.payload.node \in DOMAIN bug_by_node

\* the payload has the one field "Known issue", linking the thread of the
\* node's overlay
KnownIssueField ==
    last'.payload.fields
        = <<[name |-> "Known issue",
             link |-> bug_by_node[last'.payload.node].discord_thread]>>

\* C13 as stated: the payload has exactly one affordance, the solved button.
C13Claim ==
    [][RendersOverlaidSolution
          => /\ KnownIssueField
             /\ Len(last'.payload.items) = 1
             /\ last'.payload.items[1].custom_id
                    = <<"ts">> \o last'.payload.node \o <<"solved">>]_vars

\* C13: rendering a solution node that has no did_not_help and has an active
\* overlay gives the "Known issue" field linking the overlay's thread and
\* exactly two affordances: the solved button with token "ts:" + node id +
\* ":solved", then Start over with token ts:root.
C13Known ==
    [][RendersOverlaidSolution
          => /\ KnownIssueField
             /\ Len(last'.payload.items) = 2
             /\ last'.payload.items[1].custom_id
                    = <<"ts">> \o last'.payload.node \o <<"solved">>
             /\ last'.payload.items[1].label.text = "That solved it!"
             /\ last'.payload.items[2].custom_id = <<"ts", "root">>
             /\ last'.payload.items[2].label.text = "Start over"]_vars

\* fix1, a solution without did_not_help, rendered under the active bug
\* whose thread is T123
C13Witness ==
    /\ last.stored
    /\ last.payload.kind = "node"
    /\ last.payload.node = fix1
    /\ nodes = TreeBasic
    /\ fix1 \in DOMAIN bug_by_node
    /\ bug_by_node[fix1].discord_thread = "T123"
    /\ last.payload.fields = <<[name |-> "Known issue", link |-> "T123"]>>
    /\ CustomIds(last.payload) = <<<<"ts", "fix1", "solved">>, <<"ts", "root">>>>

\* the segments that spell a positive integer
PositiveInts == {"1", "2", "3", "4"}

\* C14: with a tree loaded, the button callback for a token that does not
\* end in ":solved" renders the payload's own node when the payload is a node id; else the
\* node named by the payload without its last segment when that segment is a
\* positive integer and the rest is a node id; else the error payload.
C14Claim ==
    [][(/\ Dispatched
        /\ load_result = "ok"
        /\ last'.op = "button"
        /\ ~EndsWithSolved(Tail(last'.token)))
          => LET payload == Tail(last'.token)
                 strips == /\ payload \notin DOMAIN nodes
                           /\ Len(payload) >= 2
                           /\ payload[Len(payload)] \in PositiveInts
                           /\ RsplitBase(payload) \in DOMAIN nodes
             IN  IF payload \in DOMAIN nodes
                 THEN last'.payload.kind = "node" /\ last'.payload.node = payload
                 ELSE IF strips
                 THEN /\ last'.payload.kind = "node"
                      /\ last'.payload.node = RsplitBase(payload)
                 ELSE last'.payload.kind = "error"]_vars

\* C15: a start, button or select callback whose _hit returns adds exactly 1
\* to the count of exactly one key, the key it was dispatched for; nothing is
\* rendered by a callback whose _hit did not return; and when the reply
\* fails the increment stays in the table and the message on screen is the
\* one that was there.
C15Once ==
    [][Ran_op(Callbacks)
          => /\ last'.stored => hits' = Tally(hits, last'.key)
             /\ ~last'.stored => (hits' = hits /\ last'.payload.kind = "none")
             /\ ~last'.sent => shown' = shown]_vars

\* the reply of the second callback failed: its increment is in the table
\* and the first reply is still on screen
C15Witness ==
    /\ dispatched = 2
    /\ last.op = "button"
    /\ last.stored
    /\ ~last.sent
    /\ last.key # root
    /\ DOMAIN hits = {root, last.key}
    /\ hits[last.key] = 1
    /\ hits[root] = 1
    /\ shown.payload.kind = "node"
    /\ shown.payload.node = root

\* C16: every custom id of a node payload rendered from a tree that load_tree
\* accepted is at most CUSTOM_ID_LIMIT characters long.
C16Claim ==
    [][(Dispatched /\ load_result = "ok" /\ last'.payload.kind = "node")
          => \A i \in 1..Len(last'.payload.items) :
                StrLen(last'.payload.items[i].custom_id) <= CUSTOM_ID_LIMIT]_vars

\* C17: a start, button, select or stats callback leaves the node map, the
\* bug map and the overlay index as they were; a stats callback leaves the
\* table as it was, and any other changes at most the row of its own key.
C17Frame ==
    [][(dispatched' = dispatched + 1)
          => /\ UNCHANGED <<nodes, bugs, bug_by_node>>
             /\ DOMAIN hits \subseteq DOMAIN hits'
             /\ \A k \in DOMAIN hits' :
                   (last'.op = "stats" \/ k # last'.key)
                       => (k \in DOMAIN hits /\ hits'[k] = hits[k])]_vars

\* a stats callback ran after a button callback while a tree with an
\* overlay was loaded
C17Witness ==
    /\ last.op = "stats"
    /\ dispatched = 2
    /\ last.rows = <<[node_id |-> fix1, hits |-> 1]>>
    /\ hits = (fix1 :> 1)
    /\ nodes = TreeBasic
    /\ DOMAIN bug_by_node = {fix1, esc}

\* the positions of the bug list whose bug is not fixed and lists nid
ActiveOn(bugseq, nid) ==
    {i \in 1..Len(bugseq) :
        /\ bugseq[i].status # "fixed"
        /\ \E a \in 1..Len(bugseq[i].affects) : bugseq[i].affects[a] = nid}

Last(S) == CHOOSE i \in S : \A j \in S : j <= i

\* C18: after a load_tree that returned, for the bug file it read (no bugs
\* when the file does not exist), the overlay index has a node id exactly
\* when a bug that is not fixed lists it, and maps it to the last such bug of
\* the file.
C18Index ==
    [][\A c \in Configs :
          (loads' = loads + 1 /\ load_result' = "ok" /\ nodes' = c.tree.nodes
              /\ load_tree(c.tree, c.bugfile))
              => LET file == IF c.bugfile.exists THEN c.bugfile.bugs ELSE << >>
                     ids == DOMAIN bug_by_node'
                                \cup UNION {{file[i].affects[a] :
                                                a \in 1..Len(file[i].affects)} :
                                             i \in 1..Len(file)}
                 IN  \A nid \in ids :
                        IF ActiveOn(file, nid) = {}
                        THEN nid \notin DOMAIN bug_by_node'
                        ELSE /\ nid \in DOMAIN bug_by_node'
                             /\ bug_by_node'[nid] = file[Last(ActiveOn(file, nid))]]_vars

\* a reload over an index that mapped fix1 and esc to b1 (the payload on
\* screen still links T123): fix1 now maps to b2, the last bug that is not
\* fixed, crash maps to b2 and not to the fixed b3, and esc is gone
C18Witness ==
    /\ loads = 2
    /\ load_result = "ok"
    /\ shown.payload.fields = <<[name |-> "Known issue", link |-> "T123"]>>
    /\ DOMAIN bug_by_node = {fix1, crash}
    /\ bug_by_node[fix1].bid = "b2"
    /\ bug_by_node[crash].bid = "b2"

\* C19: with a tree loaded, every node payload and every error payload a
\* callback renders has exactly one Start over button, with custom id
\* ts:root, as its last item in row 4.
C19Claim ==
    [][(Dispatched /\ load_result = "ok"
           /\ last'.payload.kind \in {"node", "error"})
          => LET items == last'.payload.items
             IN  /\ Cardinality({i \in 1..Len(items) :
                                    items[i].label.text = "Start over"}) = 1
                 /\ items[Len(items)] = StartOverButton]_vars

OptionsBehind(q, token) ==
    {i \in 1..Len(nodes[q].options) :
        option_buttons(nodes[q].options)[i].custom_id = token}

\* C21: with a tree loaded, pressing the button that a question node of at
\* most 5 options renders for one of its options hits the key and renders
\* the payload that TroubleshootSelect.callback hits and renders for the
\* same option's select value: the option's raw target and that node's
\* payload, also when the target ends in ":solved" or in ":<digits>".
C21Claim ==
    [][(/\ Dispatched
        /\ load_result = "ok"
        /\ last'.op = "button"
        /\ shown.payload.kind = "node"
        /\ shown.payload.node \in DOMAIN nodes
        /\ nodes[shown.payload.node].type = "question"
        /\ Len(nodes[shown.payload.node].options) <= SELECT_THRESHOLD)
          => LET q == shown.payload.node
                 select == TroubleshootSelect(q, nodes[q].options)
             IN  \A i \in OptionsBehind(q, last'.token) :
                    LET value == select.options[i].value
                    IN  /\ last'.key = value
                        /\ last'.payload = render_node(nodes, bug_by_node, value)]_vars

====
